---- MODULE Spec2Model ----
(***************************************************************************)
(* Model of gaode/app.py: a FastAPI service that relays Feishu webhook     *)
(* text messages to a Dify streaming chat backend and forwards the         *)
(* aggregated answer chunks back to Feishu.                                *)
(*                                                                         *)
(* The service runs on one asyncio event loop.  The webhook handler has no *)
(* suspension point between reading the body and returning the response,   *)
(* so it is one action.  A turn (process_ai_response) is a task created by *)
(* asyncio.create_task; its steps are the pieces of code between           *)
(* suspension points on the network: token acquisition, opening the        *)
(* stream, reading one line of the stream (with the processing of the      *)
(* event the line yields, including the delivery that processing awaits).  *)
(* The outcome of every network call is chosen by the environment.         *)
(***************************************************************************)
EXTENDS Integers, Sequences, FiniteSets, TLC

VARIABLES
    conversation_store, \* app.py:31  identity -> record, a partial function
    tasks,              \* the tasks made by asyncio.create_task, in creation order
    sent,               \* per task: the requests send_feishu_message made, in order
    lines,              \* per task: the lines read from the AI stream so far
    events,             \* per task: the events process_ai_response has taken from the generator
    calls,              \* per task: the numbers of token requests and of stream requests made
    dify,               \* per task: the requests call_dify_api posted to the AI backend
    request,            \* the body of the last webhook call
    response            \* the response of the last webhook call

vars == <<conversation_store, tasks, sent, lines, events, calls, dify, request, response>>

(***************************************************************************)
(* Bounds of the model.                                                    *)
(***************************************************************************)
MaxTurns == 1   \* tasks created in one behaviour
MaxLines == 3   \* stream lines read in one behaviour, over all tasks
MaxLongLines == 4   \* the same, in the runs of LongSpec
MaxFairLines == 2   \* the same, in the runs of FairSpec
MaxKindLines == 2   \* the same, in the runs of KindSpec
MaxRaceTurns == 2   \* tasks created in one behaviour of RaceSpec
MaxRaceLines == 2   \* stream lines read in one behaviour of RaceSpec, over all tasks

(***************************************************************************)
(* JSON values as the code tells them apart: a key that is absent, a       *)
(* string, null, a number.                                                 *)
(***************************************************************************)
Absent == [t |-> "absent", v |-> ""]
Null == [t |-> "null", v |-> ""]
Num == [t |-> "num", v |-> "5"]
Str(s) == [t |-> "str", v |-> s]

\* Python truthiness of the value d.get(key) returns (None for an absent key).
Truthy(j) == \/ j.t = "str" /\ j.v # ""
             \/ j.t = "num"

\* d.get(key): None when the key is absent.
Get(j) == IF j.t = "absent" THEN Null ELSE j

\* d.get(key, default)
GetOr(j, default) == IF j.t = "absent" THEN Str(default) ELSE j


(***************************************************************************)
(* Inbound webhook bodies.  A body is told apart by what the handler does  *)
(* with it: bytes that do not decode, text that is not JSON, a JSON scalar *)
(* (number, null, boolean), a JSON list or string (a container that is no  *)
(* object; items are the strings `in` finds in it), a JSON object.         *)
(***************************************************************************)
Content(t, json, text) == [t |-> t, json |-> json, text |-> text]
Sender(t, idt, open_id) == [t |-> t, idt |-> idt, open_id |-> open_id]
Message(t, message_type, content, chat_id) ==
    [t |-> t, message_type |-> message_type, content |-> content, chat_id |-> chat_id]
Event(t, message, sender) == [t |-> t, message |-> message, sender |-> sender]
Body(kind, items, challenge, event) ==
    [kind |-> kind, items |-> items, challenge |-> challenge, event |-> event]

NoContent == Content("absent", "dict", Absent)
TextContent(s) == Content("str", "dict", Str(s))
NoSender == Sender("absent", "absent", Absent)
OpenId(s) == Sender("dict", "dict", Str(s))
NoMessage == Message("absent", Absent, NoContent, Absent)
NoEvent == Event("absent", NoMessage, NoSender)
TextEvent(chat_id, sender, content) ==
    Event("dict", Message("dict", Str("text"), content, chat_id), sender)

\* Responses of the webhook route.
Ack == [status |-> 200, challenge |-> Absent, code |-> 0, msg |-> Str("success")]
Echo(v) == [status |-> 200, challenge |-> v, code |-> 0, msg |-> Absent]
NoResponse == [status |-> 0, challenge |-> Absent, code |-> 0, msg |-> Absent]
ServerError == [status |-> 500, challenge |-> Absent, code |-> 0, msg |-> Absent]

Unbound == [t |-> "unbound", v |-> ""]

\* Mutant of NewTask: the handler awaits the token request of the turn before it returns.
NewTask_awaited(message, user_id, conversation_id) ==
    [pc |-> "open", message |-> message, user_id |-> user_id,
     conversation_id |-> conversation_id, access_token |-> Str("t-1"),
     accumulated_response |-> "", store_writes |-> 0]

\* A task as asyncio.create_task(process_ai_response(text, receive_id, conversation_id))
\* leaves it: created, not yet run.  Beside the locals of the coroutine it counts the
\* times the coroutine has executed the assignment of app.py:178.
NewTask(message, user_id, conversation_id) ==
    [pc |-> "start", message |-> message, user_id |-> user_id,
     conversation_id |-> conversation_id, access_token |-> Unbound,
     accumulated_response |-> "", store_writes |-> 0]

\* conversation_store.get(receive_id, {}).get("conversation_id")
StoredConversation(store, receive_id) ==
    IF receive_id \in DOMAIN store THEN Str(store[receive_id].conversation_id) ELSE Null

Raised == [raised |-> TRUE, response |-> NoResponse, launch |-> <<>>]
Returned(resp, launch) == [raised |-> FALSE, response |-> resp, launch |-> launch]

\* Mutant of webhook_event: the sender id takes precedence over the chat id.
webhook_event_sender_first(data, store) ==
    LET event == data.event
        message == event.message
        content == message.content
        text == GetOr(content.text, "")
        sender_id == Get(event.sender.open_id)
        chat_id == Get(message.chat_id)
        receive_id == IF Truthy(sender_id) THEN sender_id ELSE chat_id
    IN  IF event.t = "absent" THEN Returned(Ack, <<>>)                   \* line 222
        ELSE IF event.t # "dict" THEN Raised                             \* line 224
        ELSE IF message.t = "absent" THEN Returned(Ack, <<>>)            \* {}.get(..) is None
        ELSE IF message.t # "dict" THEN Raised                           \* line 225
        ELSE IF message.message_type # Str("text") THEN Returned(Ack, <<>>)
        ELSE IF content.t \notin {"absent", "str"} THEN Raised           \* line 228, TypeError
        ELSE IF content.t = "str" /\ content.json # "dict" THEN Raised   \* lines 228, 229
        ELSE IF event.sender.t \notin {"absent", "dict"} THEN Raised     \* line 232
        ELSE IF event.sender.t = "dict" /\ event.sender.idt \notin {"absent", "dict"}
             THEN Raised                                                 \* line 232
        ELSE IF Truthy(receive_id)                                       \* line 236
             THEN Returned(Ack, <<NewTask(text.v, receive_id.v,
                                          StoredConversation(store, receive_id.v))>>)
             ELSE Returned(Ack, <<>>)

\* app.py:221-247, the message event of a JSON object without a challenge.
webhook_event(data, store) ==
    LET event == data.event
        message == event.message
        content == message.content
        text == GetOr(content.text, "")
        sender_id == Get(event.sender.open_id)
        chat_id == Get(message.chat_id)
        receive_id == IF Truthy(chat_id) THEN chat_id ELSE sender_id
    IN  IF event.t = "absent" THEN Returned(Ack, <<>>)                   \* line 222
        ELSE IF event.t # "dict" THEN Raised                             \* line 224
        ELSE IF message.t = "absent" THEN Returned(Ack, <<>>)            \* {}.get(..) is None
        ELSE IF message.t # "dict" THEN Raised                           \* line 225
        ELSE IF message.message_type # Str("text") THEN Returned(Ack, <<>>)
        ELSE IF content.t \notin {"absent", "str"} THEN Raised           \* line 228, TypeError
        ELSE IF content.t = "str" /\ content.json # "dict" THEN Raised   \* lines 228, 229
        ELSE IF event.sender.t \notin {"absent", "dict"} THEN Raised     \* line 232
        ELSE IF event.sender.t = "dict" /\ event.sender.idt \notin {"absent", "dict"}
             THEN Raised                                                 \* line 232
        ELSE IF Truthy(receive_id)                                       \* line 236
             THEN Returned(Ack, <<NewTask(text.v, receive_id.v,
                                          StoredConversation(store, receive_id.v))>>)
             ELSE Returned(Ack, <<>>)

\* Mutant of webhook_try: the challenge is answered, and the event is processed too.
webhook_try_no_return(body, store) ==
    IF body.kind = "dict" /\ body.challenge.t # "absent"
    THEN LET r == webhook_event(body, store)
         IN  IF r.raised THEN r ELSE Returned(Echo(body.challenge), r.launch)
    ELSE IF body.kind = "dict" THEN webhook_event(body, store)
    ELSE IF body.kind = "list" /\ body.items = {} THEN Returned(Ack, <<>>)
    ELSE Raised

\* app.py:207-247, the body of the handler's try block.
webhook_try(body, store) ==
    CASE body.kind = "badbytes" -> Raised                                \* line 208
      [] body.kind = "badjson" -> Raised                                 \* line 209
      [] body.kind = "scalar" -> Raised                                  \* line 212, TypeError
      [] body.kind = "list" ->
            IF "challenge" \in body.items THEN Raised                    \* line 215
            ELSE IF "event" \in body.items THEN Raised                   \* line 223
            ELSE Returned(Ack, <<>>)
      [] body.kind = "dict" ->
            IF body.challenge.t # "absent"
            THEN Returned(Echo(body.challenge), <<>>)                    \* lines 212-219
            ELSE webhook_event(body, store)

\* Mutant of webhook_except: the handler lets the exception escape (a 500).
webhook_except_escapes == ServerError

\* app.py:249-254, the handler's except block.
webhook_except == Ack

\* app.py:202-254
feishu_webhook(body) ==
    LET r == webhook_try(body, conversation_store)
    IN  /\ request' = body
        /\ response' = IF r.raised THEN webhook_except ELSE r.response
        /\ tasks' = tasks \o r.launch
        /\ sent' = sent \o [i \in 1..Len(r.launch) |-> <<>>]
        /\ lines' = lines \o [i \in 1..Len(r.launch) |-> <<>>]
        /\ events' = events \o [i \in 1..Len(r.launch) |-> <<>>]
        /\ calls' = calls \o [i \in 1..Len(r.launch) |-> [token |-> 0, stream |-> 0]]
        /\ dify' = dify \o [i \in 1..Len(r.launch) |-> <<>>]
        /\ UNCHANGED conversation_store


(***************************************************************************)
(* The turn: process_ai_response and the clients it calls.                 *)
(***************************************************************************)
Threshold == 50   \* app.py:162

\* The fixed texts of the outbound messages (app.py:89, 184, 187, 193), in English.
McpErrorText == "MCP API error: "
UnknownErrorText == "unknown error"
RequestErrorText == "error while processing your request: "
SystemErrorText == "system error: "

\* What the environment can answer to the token request (app.py:45-49): a body with
\* the token, a body without the tenant_access_token field, a failure of the call.
TokenOutcomes == {"ok", "nofield", "error"}

\* app.py:33-52
get_feishu_access_token(outcome) ==
    CASE outcome = "ok" -> [raised |-> FALSE, value |-> Str("t-1")]
      [] outcome = "nofield" -> [raised |-> FALSE, value |-> Null]      \* line 49, .get
      [] outcome = "error" -> [raised |-> TRUE, value |-> Null]         \* line 52

\* Mutant of receive_id_type: an identity of unknown kind is taken for a user.
receive_id_type_default_user(receive_id) ==
    IF Len(receive_id) >= 3 /\ SubSeq(receive_id, 1, 3) = "oc_" THEN "chat_id"
    ELSE "open_id"

\* app.py:102-108
receive_id_type(receive_id) ==
    IF Len(receive_id) >= 3 /\ SubSeq(receive_id, 1, 3) = "oc_" THEN "chat_id"
    ELSE IF Len(receive_id) >= 3 /\ SubSeq(receive_id, 1, 3) = "ou_" THEN "open_id"
    ELSE "chat_id"

\* app.py:99-147: one POST to the messages endpoint; ok is the environment's answer
\* (FALSE: a transport error or a non-success status, raised to the caller).
\* site names the call in process_ai_response that made the request.
send_feishu_message(site, access_token, receive_id, content, ok) ==
    [site |-> site, access_token |-> access_token, receive_id |-> receive_id,
     receive_id_type |-> receive_id_type(receive_id), content |-> content, ok |-> ok]

\* Mutant of call_dify_api: the conversation is looked up again when the stream opens.
call_dify_api_rereads(task, store) ==
    [query |-> task.message, user |-> task.user_id,
     conversation_id |-> StoredConversation(store, task.user_id),
     session_id |-> IF Truthy(StoredConversation(store, task.user_id))
                    THEN StoredConversation(store, task.user_id) ELSE Str("uuid4")]

\* app.py:54-72, the request call_dify_api posts for a task: its arguments are the
\* task's, bound at line 242; the store is not read.
call_dify_api(task, store) ==
    [query |-> task.message, user |-> task.user_id,
     conversation_id |-> task.conversation_id,
     session_id |-> IF Truthy(task.conversation_id)
                    THEN task.conversation_id ELSE Str("uuid4")]    \* line 65

\* The lines of the AI stream, told apart by what call_dify_api does with them.
\* data: the line starts with "data: "; json: what json.loads makes of the rest.
\* For a list or string, error says whether `"error" in` finds it.
Line(data, json, error, event, answer, conversation_id, message) ==
    [data |-> data, json |-> json, error |-> error, event |-> event, answer |-> answer,
     conversation_id |-> conversation_id, message |-> message]

\* An event as process_ai_response receives it from the generator.
StreamEvent(t, event, answer, conversation_id, message) ==
    [t |-> t, event |-> event, answer |-> answer, conversation_id |-> conversation_id,
     message |-> message]

ErrorEvent(text) == StreamEvent("dict", Str("error"), Absent, Absent, Str(text))

\* Mutant of dify_line: a line that is not JSON is not skipped; its JSONDecodeError
\* reaches line 95.
dify_line_malformed_fails(line) ==
    IF ~line.data THEN [do |-> "skip", event |-> ErrorEvent("")]
    ELSE IF line.json = "malformed"
         THEN [do |-> "fail", event |-> ErrorEvent("expecting value")]
    ELSE [do |-> "yield",
          event |-> StreamEvent("dict", line.event, line.answer, line.conversation_id,
                                line.message)]

\* app.py:82-97, one line of the response: nothing is yielded ("skip"), an event is
\* yielded ("yield"), or an exception reaches line 95, which yields one error event
\* and ends the generator ("fail").
dify_line(line) ==
    IF ~line.data THEN [do |-> "skip", event |-> ErrorEvent("")]               \* line 83
    ELSE IF line.json = "malformed" THEN [do |-> "skip", event |-> ErrorEvent("")] \* 92-94
    ELSE IF line.json = "scalar"                                               \* line 87
         THEN [do |-> "fail", event |-> ErrorEvent("argument is not iterable")]
    ELSE IF line.json = "list" /\ line.error.t # "absent"                      \* line 88
         THEN [do |-> "fail", event |-> ErrorEvent("indices must be integers")]
    ELSE IF line.json = "list"                                                 \* line 91
         THEN [do |-> "yield",
               event |-> StreamEvent("nondict", Absent, Absent, Absent, Absent)]
    ELSE IF line.error.t # "absent"                                            \* lines 87-89
         THEN [do |-> "yield", event |-> ErrorEvent(McpErrorText \o line.error.v)]
    ELSE [do |-> "yield",                                                      \* line 91
          event |-> StreamEvent("dict", line.event, line.answer, line.conversation_id,
                                line.message)]

\* The outcome of a piece of process_ai_response: the task's locals, the requests it
\* sent to the chat platform, the store, and the exception (if any) that left the piece.
Outcome(task, out, store, raised, exc) ==
    [task |-> task, out |-> out, store |-> store, raised |-> raised, exc |-> exc]

\* Mutant of put: the new record is written under every identity the store holds.
put_everywhere(store, user_id, new_conversation_id) ==
    [k \in DOMAIN store \cup {user_id} |-> [conversation_id |-> new_conversation_id]]

\* Mutant of put: a record that exists is kept (the first write wins).
put_if_absent(store, user_id, new_conversation_id) ==
    [k \in DOMAIN store \cup {user_id} |->
        IF k \in DOMAIN store THEN store[k] ELSE [conversation_id |-> new_conversation_id]]

\* conversation_store[user_id] = {...}, app.py:178-181.  updated_at is the wall clock
\* and is read nowhere; it is left out of the record.
put(store, user_id, new_conversation_id) ==
    [k \in DOMAIN store \cup {user_id} |->
        IF k = user_id THEN [conversation_id |-> new_conversation_id] ELSE store[k]]

\* Mutant of on_message: the threshold test is > instead of >=.
on_message_gt(task, ev, store, ok) ==
    LET acc == task.accumulated_response \o GetOr(ev.answer, "").v
    IN  IF GetOr(ev.answer, "").t # "str"
        THEN Outcome(task, <<>>, store, TRUE, "can only concatenate str")
        ELSE IF Len(acc) > Threshold
        THEN Outcome([task EXCEPT !.accumulated_response = IF ok THEN "" ELSE acc],
                     <<send_feishu_message("chunk", task.access_token, task.user_id, acc, ok)>>,
                     store, FALSE, "")
        ELSE Outcome([task EXCEPT !.accumulated_response = acc], <<>>, store, FALSE, "")

\* Mutant of on_message: the delivery of a chunk is not guarded by try/except.
on_message_unguarded(task, ev, store, ok) ==
    LET acc == task.accumulated_response \o GetOr(ev.answer, "").v
    IN  IF GetOr(ev.answer, "").t # "str"
        THEN Outcome(task, <<>>, store, TRUE, "can only concatenate str")
        ELSE IF Len(acc) >= Threshold
        THEN Outcome([task EXCEPT !.accumulated_response = IF ok THEN "" ELSE acc],
                     <<send_feishu_message("chunk", task.access_token, task.user_id, acc, ok)>>,
                     store, ~ok, "delivery failed")
        ELSE Outcome([task EXCEPT !.accumulated_response = acc], <<>>, store, FALSE, "")

\* app.py:158-167
on_message(task, ev, store, ok) ==
    LET answer_chunk == GetOr(ev.answer, "")
        acc == task.accumulated_response \o answer_chunk.v
    IN  IF answer_chunk.t # "str"
        THEN Outcome(task, <<>>, store, TRUE, "can only concatenate str")     \* line 160
        ELSE IF Len(acc) >= Threshold
        THEN Outcome([task EXCEPT !.accumulated_response = IF ok THEN "" ELSE acc],
                     <<send_feishu_message("chunk", task.access_token, task.user_id, acc, ok)>>,
                     store, FALSE, "")
        ELSE Outcome([task EXCEPT !.accumulated_response = acc], <<>>, store, FALSE, "")

\* Mutant of on_message_end: the rest of the accumulator is not flushed.
on_message_end_no_flush(task, ev, store, ok) ==
    Outcome(IF Truthy(Get(ev.conversation_id))
            THEN [task EXCEPT !.store_writes = @ + 1] ELSE task,
            <<>>,
            IF Truthy(Get(ev.conversation_id))
            THEN put(store, task.user_id, Get(ev.conversation_id).v) ELSE store,
            FALSE, "")

\* Mutant of on_message_end: the store is written inside the try of the delivery, so
\* a failed delivery skips it.
on_message_end_in_try(task, ev, store, ok) ==
    LET acc == task.accumulated_response
        out == IF acc # ""
               THEN <<send_feishu_message("final", task.access_token, task.user_id, acc, ok)>>
               ELSE <<>>
    IN  Outcome(IF Truthy(Get(ev.conversation_id)) /\ (ok \/ acc = "")
                THEN [task EXCEPT !.store_writes = @ + 1] ELSE task,
                out,
                IF Truthy(Get(ev.conversation_id)) /\ (ok \/ acc = "")
                THEN put(store, task.user_id, Get(ev.conversation_id).v) ELSE store,
                FALSE, "")

\* Mutant of on_message_end: the store is written whatever the identifier, also for
\* a message_end that carries none.
on_message_end_writes_always(task, ev, store, ok) ==
    LET acc == task.accumulated_response
        out == IF acc # ""
               THEN <<send_feishu_message("final", task.access_token, task.user_id, acc, ok)>>
               ELSE <<>>
    IN  Outcome([task EXCEPT !.store_writes = @ + 1], out,
                put(store, task.user_id, Get(ev.conversation_id).v), FALSE, "")

\* app.py:169-181
on_message_end(task, ev, store, ok) ==
    LET acc == task.accumulated_response
        new_conversation_id == Get(ev.conversation_id)
        out == IF acc # ""
               THEN <<send_feishu_message("final", task.access_token, task.user_id, acc, ok)>>
               ELSE <<>>
    IN  Outcome(IF Truthy(new_conversation_id)
                THEN [task EXCEPT !.store_writes = @ + 1] ELSE task,      \* line 178
                out,
                IF Truthy(new_conversation_id)
                THEN put(store, task.user_id, new_conversation_id.v) ELSE store,
                FALSE, "")

\* app.py:183-189
on_error(task, ev, store, ok) ==
    LET error_message == GetOr(ev.message, UnknownErrorText)
    IN  Outcome(task,
                <<send_feishu_message("error", task.access_token, task.user_id,
                                      RequestErrorText \o error_message.v, ok)>>,
                store, FALSE, "")

\* app.py:156-189, the body of the loop for one event.
on_event(task, ev, store, ok) ==
    IF ev.t # "dict" THEN Outcome(task, <<>>, store, TRUE, "no attribute get") \* line 156
    ELSE IF ev.event = Str("message") THEN on_message(task, ev, store, ok)
    ELSE IF ev.event = Str("message_end") THEN on_message_end(task, ev, store, ok)
    ELSE IF ev.event = Str("error") THEN on_error(task, ev, store, ok)
    ELSE Outcome(task, <<>>, store, FALSE, "")

\* Mutant of turn_except: the delivery of the system error is not guarded.
turn_except_unguarded(task, exc, ok) ==
    [out |-> IF task.access_token.t = "unbound" THEN <<>>
             ELSE <<send_feishu_message("system", task.access_token, task.user_id,
                                        SystemErrorText \o exc, ok)>>,
     propagates |-> task.access_token.t = "unbound" \/ ~ok]

\* app.py:190-195, the except block of process_ai_response.  With access_token not yet
\* bound, evaluating the arguments of the call at line 193 raises UnboundLocalError,
\* which line 194 catches: no request is made.
turn_except(task, exc, ok) ==
    [out |-> IF task.access_token.t = "unbound" THEN <<>>
             ELSE <<send_feishu_message("system", task.access_token, task.user_id,
                                        SystemErrorText \o exc, ok)>>,
     propagates |-> FALSE]                                   \* line 194 catches Exception

\* The task ends: "done" when the coroutine returns, "raised" when an exception leaves it.
Finish(task, propagates) == [task EXCEPT !.pc = IF propagates THEN "raised" ELSE "done"]


(***************************************************************************)
(* The inputs of the model.                                                *)
(***************************************************************************)
A25 == "abcdefghijklmnopqrstuvwxy"     \* a fragment of 25 characters
B24 == "0123456789 0123456789 01"      \* a fragment of 24 characters
C53 == "Hi there, how can I help you today with your inquiry?"   \* 53 characters

DataLine(event, answer, conversation_id, message) ==
    Line(TRUE, "dict", Absent, event, answer, conversation_id, message)

NoDataLine == Line(FALSE, "malformed", Absent, Absent, Absent, Absent, Absent) \* "", "event: ping"
MalformedLine == Line(TRUE, "malformed", Absent, Absent, Absent, Absent, Absent) \* data: {"answer
ScalarLine == Line(TRUE, "scalar", Absent, Absent, Absent, Absent, Absent)     \* data: 5
ListLine == Line(TRUE, "list", Absent, Absent, Absent, Absent, Absent)         \* data: [1]
ErrorListLine == Line(TRUE, "list", Str("x"), Absent, Absent, Absent, Absent)  \* data: "error"
ErrorKeyLine == Line(TRUE, "dict", Str("quota"), Str("message"), Str(A25), Absent, Absent)
MessageLine(fragment) == DataLine(Str("message"), Str(fragment), Absent, Absent)
NoAnswerLine == DataLine(Str("message"), Absent, Absent, Absent)
NullAnswerLine == DataLine(Str("message"), Null, Absent, Absent)
EndLine(conversation_id) == DataLine(Str("message_end"), Absent, conversation_id, Absent)
ErrorLine == DataLine(Str("error"), Absent, Absent, Str("overloaded"))
NoMessageErrorLine == DataLine(Str("error"), Absent, Absent, Absent)
PingLine == DataLine(Str("ping"), Absent, Absent, Absent)

\* The lines of the aggregation runs: fragments, ends of message, lines that yield nothing.
StreamLines ==
    { MessageLine(A25), MessageLine(B24),
      EndLine(Str("conv-42")), EndLine(Str("")), EndLine(Absent),
      MalformedLine, NoDataLine }

\* The lines of the failure runs: every line that makes an error event or an exception.
FailureLines ==
    { MessageLine(C53), EndLine(Str("conv-42")),
      ScalarLine, ListLine, NullAnswerLine, ErrorKeyLine }

\* The lines of the long runs: fragments and the end of the message.
LongLines == { MessageLine(A25), MessageLine(B24), EndLine(Str("conv-42")) }

\* The lines of the ingress runs.
FewLines == { EndLine(Str("conv-42")) }

Hi == TextContent("hi")

Bodies ==
    { Body("badbytes", {}, Absent, NoEvent),
      Body("badjson", {}, Absent, NoEvent),
      Body("scalar", {}, Absent, NoEvent),
      Body("list", {}, Absent, NoEvent),
      Body("list", {"challenge"}, Absent, NoEvent),
      Body("list", {"event"}, Absent, NoEvent),
      Body("dict", {}, Absent, NoEvent),
      Body("dict", {}, Str("abc123"), NoEvent),
      Body("dict", {}, Null, NoEvent),
      Body("dict", {}, Str("abc123"), TextEvent(Str("oc_1"), OpenId("ou_2"), Hi)),
      Body("dict", {}, Absent, Event("null", NoMessage, NoSender)),
      Body("dict", {}, Absent, Event("dict", NoMessage, OpenId("ou_2"))),
      Body("dict", {}, Absent, Event("dict", Message("null", Absent, NoContent, Absent), NoSender)),
      Body("dict", {}, Absent,
           Event("dict", Message("dict", Str("image"), Hi, Str("oc_1")), OpenId("ou_2"))),
      Body("dict", {}, Absent,
           Event("dict", Message("dict", Absent, Hi, Str("oc_1")), OpenId("ou_2"))),
      Body("dict", {}, Absent, TextEvent(Str("oc_1"), OpenId("ou_2"), Hi)),
      Body("dict", {}, Absent, TextEvent(Absent, OpenId("ou_2"), Hi)),
      Body("dict", {}, Absent, TextEvent(Str(""), OpenId("ou_2"), Hi)),
      Body("dict", {}, Absent, TextEvent(Str("oc_1"), NoSender, NoContent)),
      Body("dict", {}, Absent, TextEvent(Absent, NoSender, Hi)),
      Body("dict", {}, Absent, TextEvent(Str("oc_1"), OpenId("ou_2"),
                                         Content("str", "malformed", Absent))),
      Body("dict", {}, Absent, TextEvent(Str("oc_1"), OpenId("ou_2"),
                                         Content("str", "scalar", Absent))),
      Body("dict", {}, Absent, TextEvent(Str("oc_1"), OpenId("ou_2"),
                                         Content("num", "dict", Absent))),
      Body("dict", {}, Absent, TextEvent(Str("oc_1"), Sender("null", "absent", Absent), Hi)),
      Body("dict", {}, Absent, TextEvent(Str("oc_1"), Sender("dict", "null", Absent), Hi)) }

\* The bodies of the aggregation and failure runs: a text message in chat oc_1.
TextBodies == { Body("dict", {}, Absent, TextEvent(Str("oc_1"), OpenId("ou_2"), Hi)) }

NoRequest == Body("none", {}, Absent, NoEvent)

(***************************************************************************)
(* The state machine.                                                      *)
(***************************************************************************)
Init ==
    /\ conversation_store = [k \in {} |-> [conversation_id |-> ""]]    \* app.py:31
    /\ tasks = <<>>
    /\ sent = <<>>
    /\ lines = <<>>
    /\ events = <<>>
    /\ calls = <<>>
    /\ dify = <<>>
    /\ request = NoRequest
    /\ response = NoResponse

Turns == 1..Len(tasks)

\* The bound on the tasks of a behaviour: a body that would create one more is not sent.
Room(body) == Len(tasks) + Len(webhook_try(body, conversation_store).launch) <= MaxTurns

\* The requests out, each with the number of the stream event (0: none) whose
\* processing sent it.
Stamp(out, at) == [i \in 1..Len(out) |-> [at |-> at, req |-> out[i]]]

RECURSIVE SumLen(_, _)
SumLen(seqs, n) == IF n = 0 THEN 0 ELSE Len(seqs[n]) + SumLen(seqs, n - 1)
TotalLines == SumLen(lines, Len(lines))

\* process_ai_response takes event ev from the generator (app.py:155-195); last says
\* that the generator ends after it.
Consume(t, ev, ok, last) ==
    LET o == on_event(tasks[t], ev, conversation_store, ok)
        x == turn_except(o.task, o.exc, ok)
    IN  /\ events' = [events EXCEPT ![t] = Append(@, ev)]
        /\ conversation_store' = o.store
        /\ IF o.raised
           THEN /\ sent' = [sent EXCEPT ![t] = @ \o Stamp(o.out \o x.out, Len(events[t]) + 1)]
                /\ tasks' = [tasks EXCEPT ![t] = Finish(o.task, x.propagates)]
           ELSE /\ sent' = [sent EXCEPT ![t] = @ \o Stamp(o.out, Len(events[t]) + 1)]
                /\ tasks' = [tasks EXCEPT ![t] = IF last THEN Finish(o.task, FALSE) ELSE o.task]

\* app.py:153: the task starts and awaits the token.
AcquireToken(t, outcomes) ==
    /\ tasks[t].pc = "start"
    /\ \E outcome \in outcomes, ok \in BOOLEAN :
        LET r == get_feishu_access_token(outcome)
            x == turn_except(tasks[t], "token request failed", ok)
        IN  /\ calls' = [calls EXCEPT ![t].token = @ + 1]
            /\ IF r.raised
               THEN /\ sent' = [sent EXCEPT ![t] = @ \o Stamp(x.out, 0)]
                    /\ tasks' = [tasks EXCEPT ![t] = Finish(@, x.propagates)]
               ELSE /\ sent' = sent
                    /\ tasks' = [tasks EXCEPT ![t].access_token = r.value, ![t].pc = "open"]
    /\ UNCHANGED <<conversation_store, lines, events, dify, request, response>>

\* app.py:75-81: the first step of the generator, the POST to /chat-messages.  A
\* connection error or a non-2xx status ("refused") is caught at line 95: one error
\* event, the end.
OpenStream(t, answers) ==
    /\ tasks[t].pc = "open"
    /\ calls' = [calls EXCEPT ![t].stream = @ + 1]
    /\ dify' = [dify EXCEPT ![t] = Append(@, call_dify_api(tasks[t], conversation_store))]
    /\ \E answer \in answers :
          IF answer = "ok"
          THEN /\ tasks' = [tasks EXCEPT ![t].pc = "stream"]
               /\ UNCHANGED <<conversation_store, sent, events>>
          ELSE \E ok \in BOOLEAN : Consume(t, ErrorEvent("status 503"), ok, TRUE)
    /\ UNCHANGED <<lines, request, response>>

\* app.py:82-94: the generator reads one line of the response.
ReadLine(t, line) ==
    /\ tasks[t].pc = "stream"
    /\ lines' = [lines EXCEPT ![t] = Append(@, line)]
    /\ LET r == dify_line(line)
       IN  CASE r.do = "skip" -> UNCHANGED <<conversation_store, tasks, sent, events>>
             [] r.do = "yield" -> \E ok \in BOOLEAN : Consume(t, r.event, ok, FALSE)
             [] r.do = "fail" -> \E ok \in BOOLEAN : Consume(t, r.event, ok, TRUE)
    /\ UNCHANGED <<calls, dify, request, response>>

\* app.py:82: the response has no more lines; the generator and the loop end.
StreamEnd(t) ==
    /\ tasks[t].pc = "stream"
    /\ tasks' = [tasks EXCEPT ![t] = Finish(@, FALSE)]
    /\ UNCHANGED <<conversation_store, sent, lines, events, calls, dify, request, response>>

\* app.py:82, 95-97: reading the response fails (timeout, connection reset).
StreamFail(t) ==
    /\ tasks[t].pc = "stream"
    /\ \E ok \in BOOLEAN : Consume(t, ErrorEvent("read timeout"), ok, TRUE)
    /\ UNCHANGED <<lines, calls, dify, request, response>>

StreamAnswers == {"ok", "refused"}

\* The aggregation runs: text messages of one chat, the lines of StreamLines; the
\* stream opens and ends without a network failure, deliveries may fail.
Next ==
    \/ \E body \in TextBodies : Room(body) /\ feishu_webhook(body)
    \/ \E t \in Turns : AcquireToken(t, {"ok", "error"})
    \/ \E t \in Turns : OpenStream(t, {"ok"})
    \/ \E t \in Turns, line \in StreamLines : TotalLines < MaxLines /\ ReadLine(t, line)
    \/ \E t \in Turns : StreamEnd(t)

Spec == Init /\ [][Next]_vars

\* The failure runs: text messages of one chat, the lines of FailureLines, every
\* failure of the token request, of the stream and of the deliveries.
FailureNext ==
    \/ \E body \in TextBodies : Room(body) /\ feishu_webhook(body)
    \/ \E t \in Turns : AcquireToken(t, TokenOutcomes)
    \/ \E t \in Turns : OpenStream(t, StreamAnswers)
    \/ \E t \in Turns, line \in FailureLines : TotalLines < MaxLines /\ ReadLine(t, line)
    \/ \E t \in Turns : StreamEnd(t)
    \/ \E t \in Turns : StreamFail(t)

FailureSpec == Init /\ [][FailureNext]_vars

\* The lines of the fair runs: a fragment that flushes, the end of the message, a line
\* that fails in the generator, an event that fails in the loop, an error event.
FairLines ==
    { MessageLine(C53), EndLine(Str("conv-42")), ScalarLine, NullAnswerLine, ErrorKeyLine }

\* The steps of task t in the fair runs.
FairTurnStep(t) ==
    /\ t \in Turns
    /\ \/ AcquireToken(t, TokenOutcomes)
       \/ OpenStream(t, StreamAnswers)
       \/ \E line \in FairLines : TotalLines < MaxFairLines /\ ReadLine(t, line)
       \/ StreamEnd(t)
       \/ StreamFail(t)

FairNext ==
    \/ \E body \in TextBodies : Room(body) /\ feishu_webhook(body)
    \/ \E t \in Turns : AcquireToken(t, TokenOutcomes)
    \/ \E t \in Turns : OpenStream(t, StreamAnswers)
    \/ \E t \in Turns, line \in FairLines : TotalLines < MaxFairLines /\ ReadLine(t, line)
    \/ \E t \in Turns : StreamEnd(t)
    \/ \E t \in Turns : StreamFail(t)

\* The fair runs: the failure runs, shorter, under the scheduling of the event loop: a
\* task that can take a step takes one.  Every network call of a task returns or
\* raises (each request has a timeout, app.py:80, 135, and httpx's default at line
\* 45), and the loop runs every task that is ready.
FairSpec ==
    Init /\ [][FairNext]_vars /\ \A t \in 1..MaxTurns : WF_vars(FairTurnStep(t))

\* The ingress runs: every webhook body, the lines of FewLines.
IngressNext ==
    \/ \E body \in Bodies : Room(body) /\ feishu_webhook(body)
    \/ \E t \in Turns : AcquireToken(t, {"ok"})
    \/ \E t \in Turns : OpenStream(t, {"ok"})
    \/ \E t \in Turns, line \in FewLines : TotalLines < MaxLines /\ ReadLine(t, line)
    \/ \E t \in Turns : StreamEnd(t)

IngressSpec == Init /\ [][IngressNext]_vars

\* The long runs: one more line than the aggregation runs, fewer kinds of line.
LongNext ==
    \/ \E body \in TextBodies : Room(body) /\ feishu_webhook(body)
    \/ \E t \in Turns : AcquireToken(t, {"ok"})
    \/ \E t \in Turns : OpenStream(t, {"ok"})
    \/ \E t \in Turns, line \in LongLines : TotalLines < MaxLongLines /\ ReadLine(t, line)
    \/ \E t \in Turns : StreamEnd(t)

LongSpec == Init /\ [][LongNext]_vars

\* The bodies of the kind runs: text messages whose identity is a chat (oc_555), a
\* user (ou_999, no chat id), and of no known kind (xyz_1; oc, shorter than a prefix).
KindBodies ==
    { Body("dict", {}, Absent, TextEvent(Str("oc_555"), OpenId("ou_2"), Hi)),
      Body("dict", {}, Absent, TextEvent(Absent, OpenId("ou_999"), Hi)),
      Body("dict", {}, Absent, TextEvent(Str("xyz_1"), OpenId("ou_2"), Hi)),
      Body("dict", {}, Absent, TextEvent(Str("oc"), NoSender, Hi)) }

\* The lines of the kind runs: each makes one delivery.
KindLines == { MessageLine(C53), EndLine(Str("conv-42")), ErrorLine }

\* The kind runs: identities of every kind, deliveries of every site.
KindNext ==
    \/ \E body \in KindBodies : Room(body) /\ feishu_webhook(body)
    \/ \E t \in Turns : AcquireToken(t, {"ok"})
    \/ \E t \in Turns : OpenStream(t, {"ok"})
    \/ \E t \in Turns, line \in KindLines : TotalLines < MaxKindLines /\ ReadLine(t, line)
    \/ \E t \in Turns : StreamEnd(t)

KindSpec == Init /\ [][KindNext]_vars

\* The bodies of the race runs: a text message in chat oc_1, a text message of user
\* ou_2 outside a chat.
RaceBodies ==
    { Body("dict", {}, Absent, TextEvent(Str("oc_1"), OpenId("ou_2"), Hi)),
      Body("dict", {}, Absent, TextEvent(Absent, OpenId("ou_2"), Hi)) }

\* The lines of the race runs: two ends of message with different identifiers, a
\* fragment that flushes.
RaceLines == { EndLine(Str("conv-42")), EndLine(Str("conv-43")), MessageLine(C53) }

RaceRoom(body) ==
    Len(tasks) + Len(webhook_try(body, conversation_store).launch) <= MaxRaceTurns

\* The race runs: several turns, of one identity or of two, interleaved in every way
\* the event loop can interleave them.
RaceNext ==
    \/ \E body \in RaceBodies : RaceRoom(body) /\ feishu_webhook(body)
    \/ \E t \in Turns : AcquireToken(t, {"ok"})
    \/ \E t \in Turns : OpenStream(t, {"ok"})
    \/ \E t \in Turns, line \in RaceLines : TotalLines < MaxRaceLines /\ ReadLine(t, line)
    \/ \E t \in Turns : StreamEnd(t)

RaceSpec == Init /\ [][RaceNext]_vars

(***************************************************************************)
(* Properties of the webhook handler, checked under IngressSpec.           *)
(***************************************************************************)
HasChallenge(body) == body.kind = "dict" /\ body.challenge.t # "absent"

\* A text message event for which a target identity resolves.
ResolvableText(body) ==
    /\ body.kind = "dict" /\ ~HasChallenge(body)
    /\ body.event.t = "dict" /\ body.event.message.t = "dict"
    /\ body.event.message.message_type = Str("text")
    /\ body.event.message.content.t \in {"absent", "str"}
    /\ body.event.message.content.json = "dict"
    /\ body.event.sender.t \in {"absent", "dict"}
    /\ body.event.sender.idt \in {"absent", "dict"}
    /\ \/ Truthy(body.event.message.chat_id)
       \/ Truthy(body.event.sender.open_id)

\* C1: whatever the body of the webhook call (any JSON shape, invalid JSON, bytes that
\* do not decode, malformed nested content), the response is the challenge echo or
\* the success acknowledgement; no failure gives another response or escapes.
C1_AlwaysAcknowledged ==
    request # NoRequest =>
        \/ response = Ack
        \/ HasChallenge(request) /\ response = Echo(request.challenge)

\* C1 witness: a text message whose content is not JSON was acknowledged.
C1_Witness ==
    /\ request.kind = "dict" /\ request.event.message.content.json = "malformed"
    /\ response = Ack

\* C2: the step of the handler that launches a turn returns the acknowledgement with
\* the turn not yet run: no token requested, no stream opened, nothing delivered; and
\* every text message with a resolvable identity is acknowledged, and its turn
\* launched, in the one step that handles it.
C2_FireAndForget ==
    [][ /\ Len(tasks') > Len(tasks) =>
            /\ response' = Ack
            /\ Len(tasks') = Len(tasks) + 1
            /\ tasks'[Len(tasks')].pc = "start"
            /\ tasks'[Len(tasks')].access_token = Unbound
            /\ calls'[Len(tasks')] = [token |-> 0, stream |-> 0]
            /\ sent'[Len(tasks')] = <<>> /\ events'[Len(tasks')] = <<>>
        /\ \A body \in Bodies :
            ResolvableText(body) /\ feishu_webhook(body) =>
                response' = Ack /\ Len(tasks') = Len(tasks) + 1 ]_vars

\* C2 witness: the acknowledgement is out and the launched turn has not taken a step.
C2_Witness ==
    /\ response = Ack /\ ResolvableText(request)
    /\ Len(tasks) = 1 /\ tasks[1].pc = "start" /\ calls[1].token = 0

\* C3: a body with a challenge field is answered with exactly {challenge, code 0} and
\* nothing else happens: no turn, no token, no stream, no message, no store change,
\* even if the body also holds a text message event.
C3_ChallengeOnly ==
    [][ \A body \in Bodies :
            HasChallenge(body) /\ feishu_webhook(body) =>
                /\ response' = Echo(body.challenge)
                /\ UNCHANGED <<conversation_store, tasks, sent, lines, events, calls, dify>> ]_vars

\* C3 witness: after a turn has written the store, a challenge that comes with a text
\* message event was echoed.
C3_Witness ==
    /\ HasChallenge(request) /\ request.event.t = "dict"
    /\ response = Echo(Str("abc123"))
    /\ "oc_1" \in DOMAIN conversation_store


(***************************************************************************)
(* Properties of the aggregation, checked under Spec.                      *)
(***************************************************************************)
IsMessage(e) == e.t = "dict" /\ e.event = Str("message")
IsEnd(e) == e.t = "dict" /\ e.event = Str("message_end")
Fragment(e) == IF e.answer.t = "str" THEN e.answer.v ELSE ""
Last(s) == s[Len(s)]

\* The fragments of the message events es[i..j], concatenated in arrival order.
RECURSIVE Concat(_, _, _)
Concat(es, i, j) ==
    IF i > j THEN ""
    ELSE Concat(es, i, j - 1) \o (IF IsMessage(es[j]) THEN Fragment(es[j]) ELSE "")

\* The requests turn t sent while it processed its i-th event.
SentAt(t, i) == { k \in 1..Len(sent[t]) : sent[t][k].at = i }
FlushAt(t, i) == \E k \in SentAt(t, i) : sent[t][k].req.site \in {"chunk", "final"}
Flushes(t) == { k \in 1..Len(sent[t]) : sent[t][k].req.site \in {"chunk", "final"} }

\* The last event before the i-th at which turn t flushed (0: none).
PrevFlush(t, i) ==
    LET before == { j \in 1..(i - 1) : FlushAt(t, j) }
    IN  IF before = {} THEN 0 ELSE CHOOSE j \in before : \A h \in before : h <= j
Since(t, i) == Concat(events[t], PrevFlush(t, i) + 1, i)

\* Up to its i-th event turn t has seen no message_end and no failed delivery.
Smooth(t, i) ==
    /\ \A j \in 1..(i - 1) : ~IsEnd(events[t][j])
    /\ \A k \in 1..Len(sent[t]) : sent[t][k].at < i => sent[t][k].req.ok

\* C4: while deliveries succeed and before a message_end, a Message event flushes
\* exactly when the fragments received since the previous flush, its own included,
\* are 50 characters or more; the text flushed is their concatenation in arrival order.
C4_FlushAtThreshold ==
    \A t \in Turns : \A i \in 1..Len(events[t]) :
        IsMessage(events[t][i]) /\ Smooth(t, i) =>
            /\ FlushAt(t, i) <=> Len(Since(t, i)) >= 50
            /\ Cardinality(SentAt(t, i)) <= 1
            /\ \A k \in SentAt(t, i) :
                /\ sent[t][k].req.site = "chunk"
                /\ sent[t][k].req.content = Since(t, i)
                /\ sent[t][k].req.receive_id = tasks[t].user_id

\* C4 witness: two fragments of 25 characters were flushed at the second, as one text
\* of exactly 50, and a third fragment did not flush.
C4_Witness ==
    \E t \in Turns :
        /\ Len(events[t]) = 3 /\ \A i \in 1..3 : IsMessage(events[t][i])
        /\ Len(sent[t]) = 1 /\ sent[t][1].at = 2 /\ sent[t][1].req.ok
        /\ Len(sent[t][1].req.content) = 50
        /\ tasks[t].accumulated_response # ""

\* Turn t has seen only Message events and then one message_end, its last event, and
\* the accumulator that message_end found was not empty.
MessagesThenEnd(t) ==
    LET n == Len(events[t])
    IN  /\ n >= 2 /\ IsEnd(events[t][n])
        /\ \A i \in 1..(n - 1) : IsMessage(events[t][i])
        /\ tasks[t].accumulated_response # ""

OneFlushAtEnd(t) ==
    LET n == Len(events[t])
    IN  /\ Cardinality(Flushes(t)) = 1
        /\ \A k \in Flushes(t) :
            /\ sent[t][k].at = n /\ sent[t][k].req.site = "final"
            /\ sent[t][k].req.content = Concat(events[t], 1, n - 1)

\* C5 as stated: fragments each under 50 characters, then a message_end with a
\* non-empty accumulator: exactly one flush in the turn, at the message_end, with all
\* the fragments.  It is stated here of the turns whose deliveries all succeeded, the
\* case most favourable to it.
C5_Original ==
    \A t \in Turns :
        /\ MessagesThenEnd(t)
        /\ \A i \in 1..(Len(events[t]) - 1) : Len(Fragment(events[t][i])) < 50
        /\ \A k \in 1..Len(sent[t]) : sent[t][k].req.ok
        => OneFlushAtEnd(t)

\* C5 amended: fragments that together stay under 50 characters, then a message_end
\* with a non-empty accumulator: exactly one flush in the turn, at the message_end,
\* with all the fragments.
C5_OneFlushBelowThreshold ==
    \A t \in Turns :
        /\ MessagesThenEnd(t)
        /\ Len(Concat(events[t], 1, Len(events[t]) - 1)) < 50
        => OneFlushAtEnd(t)

\* C5 witness: fragments of 25 and 24 characters, then message_end, one flush of 49.
C5_Witness ==
    \E t \in Turns :
        /\ MessagesThenEnd(t) /\ Len(events[t]) = 3
        /\ Len(sent[t]) = 1 /\ sent[t][1].req.site = "final"
        /\ Len(sent[t][1].req.content) = 49

\* Turn t takes one more event from the generator in this step.
Takes(t) == Len(events'[t]) = Len(events[t]) + 1
Taken(t) == events'[t][Len(events'[t])]

\* C6: the step in which a turn processes a message_end with a non-empty
\* conversation identifier c leaves the store with conversation_id c under the turn's
\* identity, whether the flush of that step was delivered or not; a message_end with
\* no identifier or an empty one leaves the store as it was.
C6_StoreWrittenAtEnd ==
    [][ \A t \in Turns :
            Takes(t) /\ IsEnd(Taken(t)) =>
                LET c == Taken(t).conversation_id
                IN  IF c.t = "str" /\ c.v # ""
                    THEN /\ tasks[t].user_id \in DOMAIN conversation_store'
                         /\ conversation_store'[tasks[t].user_id].conversation_id = c.v
                         /\ \A k \in DOMAIN conversation_store :
                              k # tasks[t].user_id =>
                                /\ k \in DOMAIN conversation_store'
                                /\ conversation_store'[k] = conversation_store[k]
                    ELSE conversation_store' = conversation_store ]_vars

\* C6 witness: the flush at message_end failed and the store holds the identifier.
C6_Witness ==
    \E t \in Turns :
        /\ Len(events[t]) >= 1 /\ IsEnd(Last(events[t]))
        /\ Last(events[t]).conversation_id = Str("conv-42")
        /\ Len(sent[t]) >= 1 /\ Last(sent[t]).at = Len(events[t])
        /\ Last(sent[t]).req.site = "final" /\ ~Last(sent[t]).req.ok
        /\ conversation_store[tasks[t].user_id].conversation_id = "conv-42"

\* Turn t had a delivery of a threshold flush fail.
ChunkFailed(t) == \E k \in 1..Len(sent[t]) : sent[t][k].req.site = "chunk" /\ ~sent[t][k].req.ok

\* C7: a failed delivery of a threshold flush leaves the turn reading its stream, and
\* a message_end that comes later is processed as ever: the accumulator, if not
\* empty, is flushed, and the conversation identifier, if any, is stored.
C7_FailedFlushContinues ==
    [][ \A t \in Turns :
            /\ ( \E k \in (Len(sent[t]) + 1)..Len(sent'[t]) :
                    sent'[t][k].req.site = "chunk" /\ ~sent'[t][k].req.ok )
               => tasks'[t].pc = "stream" /\ Len(sent'[t]) = Len(sent[t]) + 1
            /\ ChunkFailed(t) /\ Takes(t) /\ IsEnd(Taken(t)) =>
                /\ tasks[t].accumulated_response # "" =>
                    /\ Len(sent'[t]) = Len(sent[t]) + 1
                    /\ sent'[t][Len(sent'[t])].req.site = "final"
                    /\ sent'[t][Len(sent'[t])].req.content = tasks[t].accumulated_response
                /\ Truthy(Get(Taken(t).conversation_id)) =>
                    /\ tasks[t].user_id \in DOMAIN conversation_store'
                    /\ conversation_store'[tasks[t].user_id].conversation_id
                         = Taken(t).conversation_id.v ]_vars

\* C7 witness: a threshold flush failed, a later message_end flushed and stored.
C7_Witness ==
    \E t \in Turns :
        /\ Len(sent[t]) = 2
        /\ sent[t][1].req.site = "chunk" /\ ~sent[t][1].req.ok
        /\ sent[t][2].req.site = "final" /\ sent[t][2].at > sent[t][1].at
        /\ IsEnd(Last(events[t]))
        /\ tasks[t].user_id \in DOMAIN conversation_store

\* A data line that is not JSON; a line that yields its object as the event.
IsMalformed(line) == line.data /\ line.json = "malformed"
Yields(line) == line.data /\ line.json = "dict"
LineEvent(line) ==
    StreamEvent("dict", line.event, line.answer, line.conversation_id, line.message)
EventsOf(ls) == LET ys == SelectSeq(ls, Yields) IN [i \in 1..Len(ys) |-> LineEvent(ys[i])]

\* C8: a data line that is not JSON is dropped: the events the turn has processed
\* are those of the well-formed lines, in order; reading the malformed line changes
\* neither the accumulator nor the messages sent nor the store, and no error message
\* is ever sent for it.
C8_MalformedLineSkipped ==
    /\ [](\A t \in Turns :
            /\ events[t] = EventsOf(lines[t])
            /\ \A k \in 1..Len(sent[t]) : sent[t][k].req.site \in {"chunk", "final"})
    /\ [][ \A t \in Turns :
            (Len(lines'[t]) = Len(lines[t]) + 1 /\ IsMalformed(lines'[t][Len(lines'[t])]))
            => UNCHANGED <<tasks, sent, events, conversation_store>> ]_vars

\* C8 witness: a malformed line between two fragments of 25 characters; the two were
\* flushed as one text of 50.
C8_Witness ==
    \E t \in Turns :
        /\ Len(lines[t]) = 3 /\ IsMalformed(lines[t][2])
        /\ Len(events[t]) = 2
        /\ Len(sent[t]) = 1 /\ sent[t][1].at = 2 /\ Len(sent[t][1].req.content) = 50


(***************************************************************************)
(* Properties of the failures of a turn, checked under FailureSpec and     *)
(* FairSpec.                                                               *)
(***************************************************************************)
\* Turn t ended with its token request failed: access_token was never bound.
TokenFailed(t) == tasks[t].pc # "start" /\ tasks[t].access_token = Unbound

BeginsWith(s, prefix) == Len(s) >= Len(prefix) /\ SubSeq(s, 1, Len(prefix)) = prefix

\* C9: a turn whose token request failed made one attempt to deliver a "system
\* error: ..." message to its identity, and nothing was propagated.
C9_SystemErrorOnTokenFailure ==
    \A t \in Turns :
        TokenFailed(t) =>
            /\ tasks[t].pc = "done"
            /\ Len(sent[t]) = 1
            /\ sent[t][1].req.site = "system"
            /\ sent[t][1].req.receive_id = tasks[t].user_id
            /\ BeginsWith(sent[t][1].req.content, SystemErrorText)

\* C10: no turn ever ends by raising to its caller, and every turn that was launched
\* reaches its end, whatever fails: the token request, the stream (at its opening or
\* while it is read), a line of the stream, an event, a delivery.
C10_TurnTerminates ==
    /\ [](\A t \in Turns : tasks[t].pc # "raised")
    /\ \A t \in 1..MaxTurns : [](t \in Turns => <>(t \in Turns /\ tasks[t].pc = "done"))

\* C10 witness: a turn ended after an exception in its loop whose system error message
\* could not be delivered either.
C10_Witness ==
    \E t \in Turns :
        /\ tasks[t].pc = "done"
        /\ Len(sent[t]) >= 1
        /\ Last(sent[t]).req.site = "system" /\ ~Last(sent[t]).req.ok


(***************************************************************************)
(* Properties of the delivery, checked under KindSpec.                     *)
(***************************************************************************)
\* The event turn t takes in this step makes a call of send_feishu_message: an error
\* event, a message_end with a non-empty accumulator, a message that brings the
\* accumulator to the threshold.
CallsSend(t) ==
    /\ Takes(t) /\ Taken(t).t = "dict"
    /\ \/ Taken(t).event = Str("error")
       \/ IsEnd(Taken(t)) /\ tasks[t].accumulated_response # ""
       \/ /\ IsMessage(Taken(t)) /\ Taken(t).answer.t = "str"
          /\ Len(tasks[t].accumulated_response \o Taken(t).answer.v) >= 50

\* C11: every request to the messages endpoint has the kind its identity's prefix
\* gives: oc_ a chat, ou_ a user, anything else a chat; and a call of
\* send_feishu_message makes exactly one request, delivered or not (no retry).
C11_KindByPrefix ==
    /\ [](\A t \in Turns : \A k \in 1..Len(sent[t]) :
            LET r == sent[t][k].req
            IN  r.receive_id_type =
                    IF BeginsWith(r.receive_id, "oc_") THEN "chat_id"
                    ELSE IF BeginsWith(r.receive_id, "ou_") THEN "open_id"
                    ELSE "chat_id")
    /\ [][ \A t \in Turns :
            /\ CallsSend(t) => Len(sent'[t]) = Len(sent[t]) + 1
            /\ Takes(t) /\ ~CallsSend(t) /\ tasks'[t].pc # "done" => sent'[t] = sent[t] ]_vars

\* C11 witness: a failed delivery to a user, one request made.
C11_Witness ==
    \E t \in Turns :
        /\ tasks[t].user_id = "ou_999"
        /\ Len(events[t]) = 1 /\ Len(sent[t]) = 1
        /\ sent[t][1].req.receive_id_type = "open_id" /\ ~sent[t][1].req.ok


(***************************************************************************)
(* Properties of the accumulator over a whole turn, checked under Spec and *)
(* FailureSpec.                                                            *)
(***************************************************************************)
\* C12: after a Message event that brought the accumulator to 50 characters or more
\* (the turn made a threshold flush while it processed its last event), the
\* accumulator is empty, whether the delivery succeeded or failed.
C12_AccumulatorResetAfterFlush ==
    \A t \in Turns :
        /\ Len(events[t]) >= 1 /\ IsMessage(Last(events[t]))
        /\ \E k \in SentAt(t, Len(events[t])) : sent[t][k].req.site = "chunk"
        => tasks[t].accumulated_response = ""

\* Turn t is past its token request and holds no token: the request failed, or its
\* response had no tenant_access_token field.
NoToken(t) == tasks[t].pc # "start" /\ tasks[t].access_token.t # "str"

\* C13: a turn whose token acquisition failed (the call failed, or the response had
\* no token field) is aborted: it opens no AI stream, takes no event, delivers no
\* chunk, and does not write the store.
C13_NoTokenAborts ==
    \A t \in Turns :
        NoToken(t) =>
            /\ calls[t].stream = 0
            /\ events[t] = <<>>
            /\ \A k \in 1..Len(sent[t]) : sent[t][k].req.site \notin {"chunk", "final"}

\* The texts of the first k requests of turn t that were flushes and were delivered,
\* concatenated in delivery order.
RECURSIVE Delivered(_, _)
Delivered(t, k) ==
    IF k = 0 THEN ""
    ELSE Delivered(t, k - 1) \o
         (IF sent[t][k].req.site \in {"chunk", "final"} /\ sent[t][k].req.ok
          THEN sent[t][k].req.content ELSE "")

\* C14: in every turn, whatever the events (also after a message_end), the delivered
\* chunks, concatenated in delivery order, are a prefix of the fragments received so
\* far, concatenated in arrival order.
C14_DeliveredIsPrefix ==
    \A t \in Turns :
        BeginsWith(Concat(events[t], 1, Len(events[t])), Delivered(t, Len(sent[t])))

\* C15: when a turn has ended, every fragment it received was part of a delivery
\* attempt: a flush was attempted at the event that brought the fragment or at a
\* later one (the accumulator of that flush holds the fragment unless an earlier
\* flush delivered it).
C15_EveryFragmentFlushed ==
    \A t \in Turns :
        tasks[t].pc = "done" =>
            \A i \in 1..Len(events[t]) :
                IsMessage(events[t][i]) /\ Fragment(events[t][i]) # "" =>
                    \E j \in i..Len(events[t]) : FlushAt(t, j)


(***************************************************************************)
(* Properties of the conversation store, checked under Spec and RaceSpec.  *)
(***************************************************************************)
\* The message_end events of turn t that carried a non-empty conversation identifier.
EndsWithId(t) ==
    { i \in 1..Len(events[t]) :
        /\ IsEnd(events[t][i])
        /\ events[t][i].conversation_id.t = "str" /\ events[t][i].conversation_id.v # "" }
Ends(t) == { i \in 1..Len(events[t]) : IsEnd(events[t][i]) }

\* C16 as stated: a turn writes the store at most once, whatever the events.
C16_Original == \A t \in Turns : tasks[t].store_writes <= 1

\* C16 amended: the identifier a turn works with is the one read at its launch and
\* never changes (the turn does not read the store); the turn writes the store once
\* for each message_end that carries a non-empty identifier, in the step that
\* processes it, and in no other step: at most once if the stream brings at most one
\* message_end.
C16_OneWritePerMessageEnd ==
    /\ [](\A t \in Turns :
            /\ tasks[t].store_writes = Cardinality(EndsWithId(t))
            /\ Cardinality(Ends(t)) <= 1 => tasks[t].store_writes <= 1)
    /\ [][ /\ \A t \in Turns : tasks'[t].conversation_id = tasks[t].conversation_id
           /\ conversation_store' # conversation_store =>
                \E t \in Turns : Takes(t) /\ Len(events'[t]) \in EndsWithId(t)' ]_vars

\* C16 witness: a turn wrote the store at a message_end, took a fragment after it,
\* and ended: one write, not at the end of the turn.
C16_Witness ==
    \E t \in Turns :
        /\ tasks[t].pc = "done" /\ tasks[t].store_writes = 1
        /\ Len(events[t]) = 2 /\ IsEnd(events[t][1]) /\ IsMessage(events[t][2])

\* C17: the conversation identifier a turn sends to the AI backend is the one the
\* store held for its identity when the webhook launched it (none without a record);
\* it never changes afterwards, whatever other turns write; a turn opens at most one
\* stream.
C17_ConversationFixedAtLaunch ==
    /\ [][ /\ Len(tasks') > Len(tasks) =>
                LET n == Len(tasks')
                    id == tasks'[n].user_id
                IN  tasks'[n].conversation_id =
                        IF id \in DOMAIN conversation_store
                        THEN Str(conversation_store[id].conversation_id) ELSE Null
           /\ \A t \in Turns : tasks'[t].conversation_id = tasks[t].conversation_id ]_vars
    /\ [](\A t \in Turns :
            /\ Len(dify[t]) <= 1 /\ Len(dify[t]) = calls[t].stream
            /\ \A k \in 1..Len(dify[t]) :
                /\ dify[t][k].conversation_id = tasks[t].conversation_id
                /\ dify[t][k].user = tasks[t].user_id)

\* C17 witness: a turn launched while the store had no record of its identity has
\* opened its stream with no identifier, and another turn of the identity has written
\* one to the store.
C17_Witness ==
    \E t \in Turns :
        /\ Len(dify[t]) = 1 /\ dify[t][1].conversation_id = Null
        /\ tasks[t].store_writes = 0
        /\ tasks[t].user_id \in DOMAIN conversation_store

\* No other turn has the identity of turn t.
Alone(t) == \A u \in Turns : u # t => tasks[u].user_id # tasks[t].user_id

\* The identifier of the last message_end with an identifier that turn t processed.
LastId(t) ==
    LET last == CHOOSE i \in EndsWithId(t) : \A j \in EndsWithId(t) : j <= i
    IN  events[t][last].conversation_id.v

\* C18: under every interleaving, a step of a turn changes no record of another
\* identity, every message of a turn goes to its own identity, and the record of an
\* identity that has one turn is what that turn alone determines: none before its
\* first message_end with an identifier, then the identifier of its last one.
C18_NoInterference ==
    /\ [](\A t \in Turns :
            /\ \A k \in 1..Len(sent[t]) : sent[t][k].req.receive_id = tasks[t].user_id
            /\ Alone(t) =>
                IF EndsWithId(t) = {}
                THEN tasks[t].user_id \notin DOMAIN conversation_store
                ELSE /\ tasks[t].user_id \in DOMAIN conversation_store
                     /\ conversation_store[tasks[t].user_id].conversation_id = LastId(t))
    /\ [][ \A t \in Turns :
            Takes(t) =>
                \A k \in (DOMAIN conversation_store \cup DOMAIN conversation_store') :
                    k # tasks[t].user_id =>
                        /\ k \in DOMAIN conversation_store /\ k \in DOMAIN conversation_store'
                        /\ conversation_store'[k] = conversation_store[k] ]_vars

\* C18 witness: two turns of different identities, each wrote its own identifier.
C18_Witness ==
    /\ Len(tasks) = 2 /\ tasks[1].user_id # tasks[2].user_id
    /\ tasks[1].pc = "done" /\ tasks[2].pc = "done"
    /\ DOMAIN conversation_store = {tasks[1].user_id, tasks[2].user_id}
    /\ conversation_store[tasks[1].user_id] # conversation_store[tasks[2].user_id]

\* C19: writes of turns of one identity are not serialized: the step in which a turn
\* processes a message_end with an identifier leaves that identifier in the store,
\* whichever turn wrote before and whichever was launched first; the record of an
\* identity is always the identifier of some message_end a turn of that identity
\* has processed.
C19_LastWriteWins ==
    /\ [][ \A t \in Turns :
            Takes(t) /\ Len(events'[t]) \in EndsWithId(t)' =>
                conversation_store'[tasks[t].user_id].conversation_id
                    = Taken(t).conversation_id.v ]_vars
    /\ [](\A id \in DOMAIN conversation_store :
            \E t \in Turns : \E i \in EndsWithId(t) :
                /\ tasks[t].user_id = id
                /\ events[t][i].conversation_id.v = conversation_store[id].conversation_id)

\* C19 witness: two turns of one identity, both launched with no identifier, both
\* ended after writing different identifiers; the store holds that of the turn
\* launched first, so the turn launched second wrote first.
C19_Witness ==
    /\ Len(tasks) = 2 /\ tasks[1].user_id = tasks[2].user_id
    /\ tasks[1].conversation_id = Null /\ tasks[2].conversation_id = Null
    /\ tasks[1].pc = "done" /\ tasks[2].pc = "done"
    /\ EndsWithId(1) # {} /\ EndsWithId(2) # {} /\ LastId(1) # LastId(2)
    /\ conversation_store[tasks[1].user_id].conversation_id = LastId(1)


(***************************************************************************)
(* Properties of the launch of a turn, checked under IngressSpec.          *)
(***************************************************************************)
\* The body is a JSON object whose event holds a message of type text.
IsTextMessage(body) ==
    /\ body.kind = "dict" /\ body.event.t = "dict" /\ body.event.message.t = "dict"
    /\ body.event.message.message_type = Str("text")

\* The content of the message is absent (the default "{}") or text that decodes to a
\* JSON object.
ContentDecodes(body) ==
    /\ body.event.message.content.t \in {"absent", "str"}
    /\ body.event.message.content.json = "dict"

\* An id is present: a key with a value that is not null and not empty.
Present(j) == j.t \in {"str", "num"} /\ j.v # ""

\* C20: a webhook call launches at most one turn; it launches one only for a text
\* message whose content decodes and for which an identity resolves, and the
\* identity of the turn is the chat id when there is one, the sender id otherwise; a
\* message that is not text, or has neither id, launches no turn and leaves the
\* store as it was.
C20_LaunchOnlyForText ==
    [][ \A body \in Bodies :
            feishu_webhook(body) =>
                LET chat == body.event.message.chat_id
                    sender == body.event.sender.open_id
                IN  /\ Len(tasks') <= Len(tasks) + 1
                    /\ SubSeq(tasks', 1, Len(tasks)) = tasks
                    /\ Len(tasks') = Len(tasks) + 1 =>
                        /\ IsTextMessage(body) /\ ContentDecodes(body)
                        /\ Present(chat) \/ Present(sender)
                        /\ tasks'[Len(tasks')].user_id =
                                IF Present(chat) THEN chat.v ELSE sender.v
                        /\ tasks'[Len(tasks')].message = GetOr(body.event.message.content.text, "").v
                    /\ ~IsTextMessage(body) \/ (~Present(chat) /\ ~Present(sender)) =>
                        /\ tasks' = tasks
                        /\ conversation_store' = conversation_store ]_vars

\* C20 witness: a text message with no chat id launched a turn for its sender.
C20_Witness ==
    /\ IsTextMessage(request) /\ ~Present(request.event.message.chat_id)
    /\ Len(tasks) = 1 /\ tasks[1].user_id = "ou_2" /\ tasks[1].pc = "start"

====
